---- MODULE Spec2Model ----
\* taskr: configuration loading and validation (src/src/config.rs) and the
\* sequential task runner (src/src/main.rs), as a state machine.
EXTENDS Integers, Sequences, FiniteSets, TLC

VARIABLES
    content,      \* the configuration file's content, as toml::from_str reads it
    pc,           \* position of main
    load_result,  \* what Config::load_from_file returned
    cli,          \* the parsed command line (Cli)
    exec_order,   \* run_task_with_deps: the order get_exec_order returned
    idx,          \* run_task_with_deps: position of the for loop in exec_order
    status,       \* per task: pending, running, succeeded, failed
    spawned,      \* tasks whose child process was spawned, in spawn order
    child_status, \* per task: what child.wait() returned
    cmd_result,   \* per task: what run_command returned
    run_result,   \* what run_task_with_deps returned
    root_tasks,   \* print_summary: what get_root_tasks returned
    rc,           \* run_command: position of the main thread after the spawn
    tx_alive,     \* run_command: the senders of the channel not yet dropped
    rd,           \* run_command: per stream, the state of its reader thread
    reads,        \* run_command: per stream, the reads its reader has made
    chan,         \* run_command: the lines sent and not yet received
    sink,         \* run_command: the lines printed, in the order printed
    lines_read    \* run_command: per stream, the lines its reader read, in order

\* the state of one run_command's channel and threads
cmdvars == <<rc, tx_alive, rd, reads, chan, sink, lines_read>>

vars == <<content, pc, load_result, cli, exec_order, idx, status, spawned,
          child_status, cmd_result, run_result, root_tasks, cmdvars>>

-----------------------------------------------------------------------------
\* Bounds of the model.

\* longest depends_on list of a task, in the configurations without parsers
MaxDeps == 2
\* longest depends_on list of a task, in the configurations with parsers
MaxRefDeps == 1
\* longest parsers list of a task
MaxParsers == 2
\* largest max_parallel a configuration sets
MaxCap == 1
\* largest exit code of a child process
MaxExitCode == 2
\* most reads a reader thread makes of its stream before end-of-stream
MaxLines == 2

\* task names, in lexicographic order
NameOrder == <<"build", "install", "test">>
TaskNames == {NameOrder[i] : i \in 1..Len(NameOrder)}
\* tasks a configuration with parsers may declare
RefTaskNames == {"build", "install"}
ParserNames == {"jest", "typescript"}
\* task.command: the empty command line and a non-empty one
Commands == {"", "yarn"}

Range(s) == {s[i] : i \in 1..Len(s)}

\* the sequences over S without repetition, of length at most n
RECURSIVE ListsUpTo(_, _)
ListsUpTo(S, n) ==
    IF n = 0 THEN {<<>>}
    ELSE LET shorter == ListsUpTo(S, n - 1)
         IN  shorter \cup {Append(l, x) : l \in shorter, x \in S}

DistinctLists(S, n) ==
    {l \in ListsUpTo(S, n) : \A i, j \in 1..Len(l) : l[i] = l[j] => i = j}

\* the orders in which a HashMap with key set S may iterate
Perms(S) == {l \in DistinctLists(S, Cardinality(S)) : Range(l) = S}

-----------------------------------------------------------------------------
\* The data model. Option<T> is a record [some, v].

NoList == [some |-> FALSE, v |-> <<>>]
SomeList(l) == [some |-> TRUE, v |-> l]
OptLists(S, n) == {NoList} \cup {SomeList(l) : l \in DistinctLists(S, n)}

NoCap == [some |-> FALSE, v |-> 0]
SomeCap(n) == [some |-> TRUE, v |-> n]

\* GlobalConfig, of which the model keeps max_parallel
NoGlobal == [some |-> FALSE, max_parallel |-> NoCap]
SomeGlobal(m) == [some |-> TRUE, max_parallel |-> m]
Globals == {NoGlobal, SomeGlobal(NoCap)} \cup {SomeGlobal(SomeCap(n)) : n \in 0..MaxCap}

\* Config.parsers: Option<HashMap<String, Parser>>, of which the model keeps the keys
NoParsers == [some |-> FALSE, keys |-> {}]
ParserTables == {NoParsers} \cup {[some |-> TRUE, keys |-> K] : K \in SUBSET ParserNames}

\* Task, of which the model keeps command, depends_on and parsers
Tasks(cmds, deps, prs) == [command : cmds, depends_on : deps, parsers : prs]

\* content that toml::from_str rejects
Malformed ==
    [toml_ok |-> FALSE, global |-> NoGlobal, tasks |-> <<>>, parsers |-> NoParsers]

\* content that toml::from_str reads as a Config
Config(g, tm, pt) == [toml_ok |-> TRUE, global |-> g, tasks |-> tm, parsers |-> pt]

\* the tasks of the configurations of up to three tasks, none with parsers
GraphTasks == Tasks({"yarn"}, OptLists(TaskNames, MaxDeps), {NoList})

\* the tasks of the configurations of up to two tasks, with parsers
RefTasks ==
    Tasks(Commands, OptLists(TaskNames, MaxRefDeps), OptLists(ParserNames, MaxParsers))

-----------------------------------------------------------------------------
\* Results. Every result is a record of the same shape.

Ok == [ok |-> TRUE, kind |-> "Ok", task |-> "", detail |-> "", code |-> 0]
Err(kind, task, detail) ==
    [ok |-> FALSE, kind |-> kind, task |-> task, detail |-> detail, code |-> 0]
ErrCode(kind, task, code) ==
    [ok |-> FALSE, kind |-> kind, task |-> task, detail |-> "", code |-> code]
\* no result yet
Pending == [ok |-> FALSE, kind |-> "Pending", task |-> "", detail |-> "", code |-> 0]

-----------------------------------------------------------------------------
\* Config (src/src/config.rs)

\* self.tasks.contains_key(dep)
TaskDeclared(cfg, dep) == dep \in DOMAIN cfg.tasks

\* ParserDeclared, were a configuration without a parsers table to accept any name
ParserDeclaredNoTable(cfg, parser) ==
    IF cfg.parsers.some THEN parser \in cfg.parsers.keys ELSE TRUE

\* the parser table exists and contains the key
ParserDeclared(cfg, parser) ==
    IF cfg.parsers.some THEN parser \in cfg.parsers.keys ELSE FALSE

\* the body of validate's loop for one task: its depends_on, then its parsers
validate_task(cfg, task_name) ==
    LET task == cfg.tasks[task_name]
        deps == task.depends_on.v
        prs == task.parsers.v
        badDeps == {i \in 1..Len(deps) : ~TaskDeclared(cfg, deps[i])}
        badPrs == {i \in 1..Len(prs) : ~ParserDeclared(cfg, prs[i])}
        first(S) == CHOOSE i \in S : \A j \in S : i <= j
    IN  IF task.depends_on.some /\ badDeps # {}
        THEN Err("InvalidDependency", task_name, deps[first(badDeps)])
        ELSE IF task.parsers.some /\ badPrs # {}
        THEN Err("InvalidParser", task_name, prs[first(badPrs)])
        ELSE Ok

\* validate, with the tasks map iterating in `order`; the first error returns
RECURSIVE validate(_, _)
validate(cfg, order) ==
    IF order = <<>> THEN Ok
    ELSE LET r == validate_task(cfg, Head(order))
         IN  IF r.ok THEN validate(cfg, Tail(order)) ELSE r

load_from_string(c, order) ==
    IF ~c.toml_ok THEN Err("ParseError", "", "") ELSE validate(c, order)

load_from_file(readable, c, order) ==
    IF ~readable THEN Err("FileRead", "", "") ELSE load_from_string(c, order)

\* the default max_parallel, of get_global_config and of print_summary
DefaultMaxParallel == 4

get_global_config(cfg) ==
    IF cfg.global.some THEN cfg.global
    ELSE SomeGlobal(SomeCap(DefaultMaxParallel))

\* global.max_parallel.unwrap_or(4)
max_parallel(cfg) ==
    LET m == get_global_config(cfg).max_parallel
    IN  IF m.some THEN m.v ELSE DefaultMaxParallel

\* IsRoot, were a present and empty depends_on not to count
IsRootAbsentOnly(task) == ~task.depends_on.some

\* the filter of get_root_tasks
IsRoot(task) == ~task.depends_on.some \/ task.depends_on.v = <<>>

\* get_root_tasks, with the tasks map iterating in `order`
get_root_tasks(cfg, order) == SelectSeq(order, LAMBDA n : IsRoot(cfg.tasks[n]))

-----------------------------------------------------------------------------
\* Config's queries that main.rs calls and config.rs does not hold: has_task,
\* get_task, get_exec_order.

has_task(cfg, name) == name \in DOMAIN cfg.tasks

\* the names a task depends on; none for a name that is no task
DependsOn(cfg, n) ==
    IF has_task(cfg, n) /\ cfg.tasks[n].depends_on.some
    THEN Range(cfg.tasks[n].depends_on.v) ELSE {}

\* the transitive dependency closure of the names in S, S included
RECURSIVE Closure(_, _)
Closure(cfg, S) ==
    LET S2 == S \cup UNION {DependsOn(cfg, n) : n \in S}
    IN  IF S2 = S THEN S ELSE Closure(cfg, S2)

Rank(n) == CHOOSE i \in 1..Len(NameOrder) : NameOrder[i] = n

\* the task to place next: the least name among the tasks whose dependencies are placed
NextReady(ready) == CHOOSE n \in ready : \A m \in ready : Rank(n) <= Rank(m)

\* topological sort of `remaining` after `placed`; fails when no task is ready
RECURSIVE TopoSort(_, _, _)
TopoSort(cfg, remaining, placed) ==
    LET ready == {n \in remaining : DependsOn(cfg, n) \subseteq Range(placed)}
    IN  IF remaining = {} THEN [ok |-> TRUE, order |-> placed, err |-> Ok]
        ELSE IF ready = {}
        THEN [ok |-> FALSE, order |-> <<>>,
              err |-> Err("CircularDependency", NextReady(remaining), "")]
        ELSE LET n == NextReady(ready)
             IN  TopoSort(cfg, remaining \ {n}, Append(placed, n))

\* the names of S in lexicographic order
RECURSIVE SortByName(_)
SortByName(S) ==
    IF S = {} THEN <<>>
    ELSE LET n == NextReady(S) IN <<n>> \o SortByName(S \ {n})

\* get_exec_order, were the closure listed by name alone
get_exec_order_by_name(cfg, task_name) ==
    [ok |-> TRUE, order |-> SortByName(Closure(cfg, {task_name})), err |-> Ok]

get_exec_order(cfg, task_name) == TopoSort(cfg, Closure(cfg, {task_name}), <<>>)

-----------------------------------------------------------------------------
\* run_command (src/src/main.rs)

\* what child.wait() returns: an error, or the ExitStatus, whose code is absent
\* for a child a signal ended
NoCode == [some |-> FALSE, v |-> 0]
ExitStatuses ==
    {[waited |-> TRUE, wait_ok |-> TRUE, code |-> c] :
        c \in {NoCode} \cup {[some |-> TRUE, v |-> n] : n \in 0..MaxExitCode}}
WaitFailed == [waited |-> TRUE, wait_ok |-> FALSE, code |-> NoCode]
NotWaited == [waited |-> FALSE, wait_ok |-> FALSE, code |-> NoCode]
WaitOutcomes == ExitStatuses \cup {WaitFailed}

\* success, were every exit code to count
successAnyCode(st) == st.code.some

\* status.success()
success(st) == st.code.some /\ st.code.v = 0

\* status.code().unwrap_or(-1)
exit_code(st) == IF st.code.some THEN st.code.v ELSE -1

\* run_command up to the spawn: the command split, then command.spawn()
run_command_spawn(task, spawn_ok) ==
    IF task.command = "" THEN Err("EmptyCommand", "", "")
    ELSE IF ~spawn_ok THEN Err("SpawnFailed", "", task.command)
    ELSE Ok

\* run_command from child.wait() on
run_command_wait(task, st) ==
    IF ~st.wait_ok THEN Err("WaitFailed", "", "")
    ELSE IF ~success(st) THEN ErrCode("ExitFailure", "", exit_code(st))
    ELSE Ok

-----------------------------------------------------------------------------
\* main and run_task_with_deps (src/src/main.rs)

NoCli == [command |-> "", name |-> ""]
CliCommands ==
    {[command |-> "Summary", name |-> ""]}
        \cup {[command |-> "Run", name |-> n] : n \in TaskNames}

\* LoadAborts, were main to go on after a validation error
LoadAbortsUnreadOnly(r) == r.kind \in {"FileRead", "ParseError"}

\* main leaves with exit code 1 on a load error
LoadAborts(r) == ~r.ok

\* LoopAborts, were the loop to go on after a failed task
LoopNeverAborts(r) == FALSE

\* LoopAborts, were the loop to return only when no process could be started
LoopAbortsUnspawnedOnly(r) == ~r.ok /\ r.kind \in {"EmptyCommand", "SpawnFailed"}

\* run_task_with_deps returns the error of a task's run_command
LoopAborts(r) == ~r.ok

\* the two output streams of a child process
Streams == {"stdout", "stderr"}

\* no run_command has spawned a child
NoCommand ==
    /\ rc = "idle"
    /\ tx_alive = {}
    /\ rd = [s \in Streams |-> "unspawned"]
    /\ reads = [s \in Streams |-> 0]
    /\ chan = <<>>
    /\ sink = <<>>
    /\ lines_read = [s \in Streams |-> <<>>]

\* main begins
Start ==
    /\ pc = "start"
    /\ load_result = Pending
    /\ cli = NoCli
    /\ exec_order = <<>>
    /\ idx = 0
    /\ status = [t \in TaskNames |-> "pending"]
    /\ spawned = <<>>
    /\ child_status = [t \in TaskNames |-> NotWaited]
    /\ cmd_result = [t \in TaskNames |-> Pending]
    /\ run_result = Pending
    /\ root_tasks = <<>>
    /\ NoCommand

Init ==
    /\ \/ content = Malformed
       \/ \E g \in Globals, D \in SUBSET TaskNames :
             \E tm \in [D -> GraphTasks] : content = Config(g, tm, NoParsers)
       \/ \E pt \in ParserTables, D \in SUBSET RefTaskNames :
             \E tm \in [D -> RefTasks] : content = Config(NoGlobal, tm, pt)
    /\ Start

\* main: Config::find_config_file
FindConfigFile ==
    /\ pc = "start"
    /\ \E found \in BOOLEAN : pc' = IF found THEN "load" ELSE "exit1"
    /\ UNCHANGED <<content, load_result, cli, exec_order, idx, status, spawned,
                   child_status, cmd_result, run_result, root_tasks>>

\* main: Config::load_from_file, and the exit on its error
LoadConfig ==
    /\ pc = "load"
    /\ \E readable \in BOOLEAN, order \in Perms(DOMAIN content.tasks) :
          /\ load_result' = load_from_file(readable, content, order)
          /\ pc' = IF LoadAborts(load_result') THEN "exit1" ELSE "dispatch"
    /\ UNCHANGED <<content, cli, exec_order, idx, status, spawned,
                   child_status, cmd_result, run_result, root_tasks>>

\* main: the match on cli.command
Dispatch ==
    /\ pc = "dispatch"
    /\ \E c \in CliCommands :
          /\ cli' = c
          /\ pc' = IF c.command = "Run" THEN "run" ELSE "summary"
    /\ UNCHANGED <<content, load_result, exec_order, idx, status, spawned,
                   child_status, cmd_result, run_result, root_tasks>>

\* print_summary, of which the model keeps the root tasks it lists
PrintSummary ==
    /\ pc = "summary"
    /\ \E order \in Perms(DOMAIN content.tasks) :
          root_tasks' = get_root_tasks(content, order)
    /\ pc' = "done"
    /\ UNCHANGED <<content, load_result, cli, exec_order, idx, status, spawned,
                   child_status, cmd_result, run_result>>

\* run_task_with_deps up to its loop: has_task, get_exec_order
RunTaskWithDeps ==
    /\ pc = "run"
    /\ LET r == get_exec_order(content, cli.name)
       IN  IF ~has_task(content, cli.name)
           THEN /\ run_result' = Err("TaskNotFound", cli.name, "")
                /\ pc' = "exit1"
                /\ UNCHANGED <<exec_order, idx>>
           ELSE IF ~r.ok
           THEN /\ run_result' = r.err
                /\ pc' = "exit1"
                /\ UNCHANGED <<exec_order, idx>>
           ELSE /\ exec_order' = r.order
                /\ idx' = 1
                /\ pc' = "loop"
                /\ UNCHANGED run_result
    /\ UNCHANGED <<content, load_result, cli, status, spawned,
                   child_status, cmd_result, root_tasks>>

\* the loop of run_task_with_deps after run_command returned r for the task at idx
AfterCommand(task, r) ==
    /\ cmd_result' = [cmd_result EXCEPT ![task] = r]
    /\ status' = [status EXCEPT ![task] = IF r.ok THEN "succeeded" ELSE "failed"]
    /\ IF LoopAborts(r)
       THEN /\ run_result' = r
            /\ pc' = "exit1"
            /\ UNCHANGED idx
       ELSE IF idx = Len(exec_order)
       THEN /\ run_result' = Ok
            /\ pc' = "done"
            /\ UNCHANGED idx
       ELSE /\ idx' = idx + 1
            /\ pc' = "loop"
            /\ UNCHANGED run_result

\* one iteration of the loop, up to the spawn of the task's process
StartTask ==
    /\ pc = "loop"
    /\ LET task == exec_order[idx]
       IN  IF ~has_task(content, task)
           THEN \* get_task(&task).unwrap() panics
                /\ pc' = "panic"
                /\ UNCHANGED <<idx, status, spawned, cmd_result, run_result>>
           ELSE \E spawn_ok \in BOOLEAN :
                  LET r == run_command_spawn(content.tasks[task], spawn_ok)
                  IN  IF r.ok
                      THEN /\ spawned' = Append(spawned, task)
                           /\ status' = [status EXCEPT ![task] = "running"]
                           /\ pc' = "wait"
                           /\ UNCHANGED <<idx, cmd_result, run_result>>
                      ELSE /\ AfterCommand(task, r)
                           /\ UNCHANGED spawned
    /\ UNCHANGED <<content, load_result, cli, exec_order, child_status, root_tasks>>

\* the rest of the iteration: the output is drained, the child waited for
FinishTask ==
    /\ pc = "wait"
    /\ LET task == exec_order[idx]
       IN  \E st \in WaitOutcomes :
              /\ child_status' = [child_status EXCEPT ![task] = st]
              /\ AfterCommand(task, run_command_wait(content.tasks[task], st))
    /\ UNCHANGED <<content, load_result, cli, exec_order, spawned, root_tasks>>

\* the program, with each run_command from its spawn on as one step
Next ==
    \/ FindConfigFile /\ UNCHANGED cmdvars
    \/ LoadConfig /\ UNCHANGED cmdvars
    \/ Dispatch /\ UNCHANGED cmdvars
    \/ PrintSummary /\ UNCHANGED cmdvars
    \/ RunTaskWithDeps /\ UNCHANGED cmdvars
    \/ StartTask /\ UNCHANGED cmdvars
    \/ FinishTask /\ UNCHANGED cmdvars

Spec == Init /\ [][Next]_vars

-----------------------------------------------------------------------------
\* run_command from its spawn on, thread by thread (src/src/main.rs, 137-183)

\* a line of a stream: the n-th read of the stream's reader
Line(s, n) == [stream |-> s, n |-> n]

\* Dequeue, were the receiver to take the line sent last
DequeueLast(ch) == [msg |-> ch[Len(ch)], rest |-> SubSeq(ch, 1, Len(ch) - 1)]

\* the receiver takes the line sent first
Dequeue(ch) == [msg |-> Head(ch), rest |-> Tail(ch)]

\* Disconnected, were the loop to end as soon as it finds the channel empty
DisconnectedWhenEmpty(alive, ch) == ch = <<>>

\* the iteration over rx ends: no line is left and every sender is dropped
Disconnected(alive, ch) == ch = <<>> /\ alive = {}

\* DropOriginal, were the original sender kept to the end of run_command
DropOriginalMissing(alive) == alive

\* drop(tx)
DropOriginal(alive) == alive \ {"tx"}

\* the spawn of StartTask, with the pipes of the child taken
SpawnChild ==
    /\ StartTask
    /\ IF pc' = "wait"
       THEN /\ rc' = "channel"
            /\ tx_alive' = {}
            /\ rd' = [s \in Streams |-> "unspawned"]
            /\ reads' = [s \in Streams |-> 0]
            /\ chan' = <<>>
            /\ sink' = <<>>
            /\ lines_read' = [s \in Streams |-> <<>>]
       ELSE UNCHANGED cmdvars

\* mpsc::channel(), tx.clone() and the spawn of the stdout reader
SpawnStdoutReader ==
    /\ pc = "wait" /\ rc = "channel"
    /\ tx_alive' = {"tx", "stdout"}
    /\ rd' = [rd EXCEPT !["stdout"] = "reading"]
    /\ rc' = "spawn_stderr"
    /\ UNCHANGED <<content, pc, load_result, cli, exec_order, idx, status, spawned,
                   child_status, cmd_result, run_result, root_tasks,
                   reads, chan, sink, lines_read>>

\* tx.clone() and the spawn of the stderr reader
SpawnStderrReader ==
    /\ pc = "wait" /\ rc = "spawn_stderr"
    /\ tx_alive' = tx_alive \cup {"stderr"}
    /\ rd' = [rd EXCEPT !["stderr"] = "reading"]
    /\ rc' = "drop_tx"
    /\ UNCHANGED <<content, pc, load_result, cli, exec_order, idx, status, spawned,
                   child_status, cmd_result, run_result, root_tasks,
                   reads, chan, sink, lines_read>>

\* drop(tx)
DropTx ==
    /\ pc = "wait" /\ rc = "drop_tx"
    /\ tx_alive' = DropOriginal(tx_alive)
    /\ rc' = "recv"
    /\ UNCHANGED <<content, pc, load_result, cli, exec_order, idx, status, spawned,
                   child_status, cmd_result, run_result, root_tasks,
                   rd, reads, chan, sink, lines_read>>

\* a reader thread: reader.lines() yields Ok(line), which the reader sends
ReadLine(s) ==
    /\ rd[s] = "reading"
    /\ reads[s] < MaxLines
    /\ reads' = [reads EXCEPT ![s] = @ + 1]
    /\ chan' = Append(chan, Line(s, reads[s] + 1))
    /\ lines_read' = [lines_read EXCEPT ![s] = Append(@, reads[s] + 1)]
    /\ UNCHANGED <<content, pc, load_result, cli, exec_order, idx, status, spawned,
                   child_status, cmd_result, run_result, root_tasks,
                   rc, tx_alive, rd, sink>>

\* a reader thread: reader.lines() yields Err, which the reader skips
ReadError(s) ==
    /\ rd[s] = "reading"
    /\ reads[s] < MaxLines
    /\ reads' = [reads EXCEPT ![s] = @ + 1]
    /\ UNCHANGED <<content, pc, load_result, cli, exec_order, idx, status, spawned,
                   child_status, cmd_result, run_result, root_tasks,
                   rc, tx_alive, rd, chan, sink, lines_read>>

\* a reader thread: end-of-stream; the closure returns and drops its sender
ReadEof(s) ==
    /\ rd[s] = "reading"
    /\ rd' = [rd EXCEPT ![s] = "done"]
    /\ tx_alive' = tx_alive \ {s}
    /\ UNCHANGED <<content, pc, load_result, cli, exec_order, idx, status, spawned,
                   child_status, cmd_result, run_result, root_tasks,
                   rc, reads, chan, sink, lines_read>>

\* the steps of the reader thread of stream s
Reader(s) == ReadLine(s) \/ ReadError(s) \/ ReadEof(s)

\* for output in rx: a line is received and printed
Receive ==
    /\ pc = "wait" /\ rc = "recv"
    /\ chan # <<>>
    /\ sink' = Append(sink, Dequeue(chan).msg)
    /\ chan' = Dequeue(chan).rest
    /\ UNCHANGED <<content, pc, load_result, cli, exec_order, idx, status, spawned,
                   child_status, cmd_result, run_result, root_tasks,
                   rc, tx_alive, rd, reads, lines_read>>

\* for output in rx: the iteration ends
ReceiveEnd ==
    /\ pc = "wait" /\ rc = "recv"
    /\ Disconnected(tx_alive, chan)
    /\ rc' = "join"
    /\ UNCHANGED <<content, pc, load_result, cli, exec_order, idx, status, spawned,
                   child_status, cmd_result, run_result, root_tasks,
                   tx_alive, rd, reads, chan, sink, lines_read>>

\* stdout_handle.join() and stderr_handle.join()
JoinReaders ==
    /\ pc = "wait" /\ rc = "join"
    /\ \A s \in Streams : rd[s] = "done"
    /\ rc' = "wait"
    /\ UNCHANGED <<content, pc, load_result, cli, exec_order, idx, status, spawned,
                   child_status, cmd_result, run_result, root_tasks,
                   tx_alive, rd, reads, chan, sink, lines_read>>

\* child.wait(), the result of run_command and what the loop does with it
WaitChild ==
    /\ rc = "wait"
    /\ FinishTask
    /\ rc' = "idle"
    /\ UNCHANGED <<tx_alive, rd, reads, chan, sink, lines_read>>

\* the steps of the main thread
MainThread ==
    \/ FindConfigFile /\ UNCHANGED cmdvars
    \/ LoadConfig /\ UNCHANGED cmdvars
    \/ Dispatch /\ UNCHANGED cmdvars
    \/ PrintSummary /\ UNCHANGED cmdvars
    \/ RunTaskWithDeps /\ UNCHANGED cmdvars
    \/ SpawnChild
    \/ SpawnStdoutReader
    \/ SpawnStderrReader
    \/ DropTx
    \/ Receive
    \/ ReceiveEnd
    \/ JoinReaders
    \/ WaitChild

\* the program, with the threads of run_command interleaved
NextCmd ==
    \/ MainThread
    \/ Reader("stdout")
    \/ Reader("stderr")

\* the tasks of the configurations whose commands run thread by thread
CmdTasks == Tasks({"yarn"}, OptLists(RefTaskNames, MaxRefDeps), {NoList})

InitCmd ==
    /\ \E D \in SUBSET RefTaskNames :
          \E tm \in [D -> CmdTasks] : content = Config(NoGlobal, tm, NoParsers)
    /\ Start

SpecCmd == InitCmd /\ [][NextCmd]_vars

\* SpecCmd with the scheduler running every thread that can take a step
SpecCmdFair ==
    /\ SpecCmd
    /\ WF_vars(MainThread)
    /\ WF_vars(Reader("stdout"))
    /\ WF_vars(Reader("stderr"))

-----------------------------------------------------------------------------
\* What the properties speak of.

\* load_from_string returned, for content toml::from_str read
Validated == content.toml_ok /\ load_result.kind \notin {"Pending", "FileRead"}

\* a is a task and lists b in depends_on
Edge(cfg, a, b) ==
    a \in DOMAIN cfg.tasks /\ cfg.tasks[a].depends_on.some
        /\ \E i \in 1..Len(cfg.tasks[a].depends_on.v) : cfg.tasks[a].depends_on.v[i] = b

\* the paths through the task names that visit no name twice
Paths == DistinctLists(TaskNames, Cardinality(TaskNames)) \ {<<>>}

\* a dependency path of one edge or more leads from a to b
Reaches(cfg, a, b) ==
    \E p \in Paths :
        /\ Edge(cfg, a, p[1])
        /\ \A i \in 1..(Len(p) - 1) : Edge(cfg, p[i], p[i + 1])
        /\ p[Len(p)] = b

OnCycle(cfg, n) == Reaches(cfg, n, n)
HasCycle(cfg) == \E n \in DOMAIN cfg.tasks : OnCycle(cfg, n)

\* task t lists name d in depends_on, and d is no task
DanglingDep(cfg, t, d) == Edge(cfg, t, d) /\ d \notin DOMAIN cfg.tasks
AllDepsResolve(cfg) == \A t \in DOMAIN cfg.tasks, d \in TaskNames : ~DanglingDep(cfg, t, d)

\* task t lists name p in parsers, and p is no declared parser
DanglingParser(cfg, t, p) ==
    /\ t \in DOMAIN cfg.tasks
    /\ cfg.tasks[t].parsers.some
    /\ \E i \in 1..Len(cfg.tasks[t].parsers.v) : cfg.tasks[t].parsers.v[i] = p
    /\ ~(cfg.parsers.some /\ p \in cfg.parsers.keys)
AllParsersResolve(cfg) ==
    \A t \in DOMAIN cfg.tasks, p \in ParserNames : ~DanglingParser(cfg, t, p)

-----------------------------------------------------------------------------
\* C1: a configuration with a dependency cycle is never returned as validated, and
\* when its references all resolve load_from_string fails with CircularDependency
\* naming a task on the cycle.
C1_CycleRejected ==
    (Validated /\ HasCycle(content)) =>
        /\ ~load_result.ok
        /\ (AllDepsResolve(content) /\ AllParsersResolve(content)) =>
              /\ load_result.kind = "CircularDependency"
              /\ OnCycle(content, load_result.task)

\* C2: when some task lists an unresolved name in depends_on, load_from_string
\* returns InvalidDependency with such a task and its unresolved name; when every
\* depends_on name resolves it never returns InvalidDependency.
C2_InvalidDependencyReturned ==
    Validated =>
        /\ ~AllDepsResolve(content) =>
              /\ load_result.kind = "InvalidDependency"
              /\ DanglingDep(content, load_result.task, load_result.detail)
        /\ AllDepsResolve(content) => load_result.kind # "InvalidDependency"

\* C3: when every depends_on name resolves and some task lists an undeclared parser
\* (the parsers table may be absent), load_from_string returns InvalidParser with
\* such a task and its undeclared parser name; when every parser name resolves it
\* never returns InvalidParser.
C3_InvalidParserReturned ==
    Validated =>
        /\ (AllDepsResolve(content) /\ ~AllParsersResolve(content)) =>
              /\ load_result.kind = "InvalidParser"
              /\ DanglingParser(content, load_result.task, load_result.detail)
        /\ AllParsersResolve(content) => load_result.kind # "InvalidParser"

\* C3's case: InvalidParser returned for a configuration without a parsers table
C3_Witness ==
    /\ Validated
    /\ AllDepsResolve(content)
    /\ ~content.parsers.some
    /\ load_result.kind = "InvalidParser"

\* run_task_with_deps computed an execution order for the requested task
Ordered == cli.command = "Run" /\ pc \in {"loop", "wait", "done"}

\* the requested task and what it transitively depends on
ClosureOf(cfg, t) == {t} \cup {n \in TaskNames : Reaches(cfg, t, n)}

\* the place of task n in the execution order, 0 when it is not in it
Place(n) ==
    IF \E i \in 1..Len(exec_order) : exec_order[i] = n
    THEN CHOOSE i \in 1..Len(exec_order) : exec_order[i] = n
    ELSE 0

\* install without dependencies, build depending on install, test on build
IsChain(cfg) ==
    /\ DOMAIN cfg.tasks = {"install", "build", "test"}
    /\ \A d \in TaskNames : ~Edge(cfg, "install", d)
    /\ \A d \in TaskNames : Edge(cfg, "build", d) <=> d = "install"
    /\ \A d \in TaskNames : Edge(cfg, "test", d) <=> d = "build"

\* C4: for a declared task whose dependency closure is acyclic, run_task_with_deps
\* gets an execution order that has no duplicates, lists exactly the task's
\* transitive dependency closure, the task included, and places every task after
\* all the tasks it depends on; for the chain install, build, test the order for
\* test is install, build, test.
C4_ExecOrderTopological ==
    /\ (/\ cli.command = "Run"
        /\ pc \notin {"start", "load", "dispatch", "run"}
        /\ load_result.ok
        /\ has_task(content, cli.name)
        /\ \A n \in ClosureOf(content, cli.name) : ~OnCycle(content, n))
          => /\ exec_order # <<>>
             /\ \A i, j \in 1..Len(exec_order) : exec_order[i] = exec_order[j] => i = j
             /\ Range(exec_order) = ClosureOf(content, cli.name)
             /\ \A i \in 1..Len(exec_order), d \in TaskNames :
                    Edge(content, exec_order[i], d) => (Place(d) > 0 /\ Place(d) < i)
    /\ (Ordered /\ IsChain(content) /\ cli.name = "test")
          => exec_order = <<"install", "build", "test">>

\* C4's case: an order of three tasks in which the names are not in lexicographic order
C4_Witness ==
    /\ Ordered
    /\ Len(exec_order) = 3
    /\ \E i \in 1..2 : Rank(exec_order[i]) > Rank(exec_order[i + 1])

\* task t was started: run_command was entered for it
Started(t) == status[t] # "pending"

\* task t finished successfully: its child exited with code 0
Succeeded(t) ==
    /\ status[t] = "succeeded"
    /\ cmd_result[t].ok
    /\ child_status[t].wait_ok /\ child_status[t].code.some /\ child_status[t].code.v = 0

\* C5: a task is started only after every task in its depends_on has finished
\* successfully, and once a task has failed none of its direct or transitive
\* dependents is ever started.
C5_StartsAfterDependencies ==
    /\ \A t, d \in TaskNames : (Started(t) /\ Edge(content, t, d)) => Succeeded(d)
    /\ \A f, t \in TaskNames :
          (status[f] = "failed" /\ Reaches(content, t, f)) => ~Started(t)

\* C5's case: in one run a task started after its dependency succeeded and failed,
\* and its own dependent was not started
C5_Witness ==
    \E a, b, c \in TaskNames :
        /\ Edge(content, b, a) /\ Edge(content, c, b)
        /\ Succeeded(a) /\ status[b] = "failed" /\ b \in Range(spawned)
        /\ c \in Range(exec_order) /\ ~Started(c)
        /\ pc = "exit1"

C7_AtMostMaxParallelRunning ==
    Cardinality({t \in TaskNames : status[t] = "running"}) <= max_parallel(content)

\* C8: for a task whose process was spawned and waited for, run_command returns
\* success exactly when the child exited with code 0; a nonzero exit code yields a
\* failure that carries that code, and run_task_with_deps returns that failure.
C8_SuccessIffExitZero ==
    \A t \in TaskNames :
        (t \in Range(spawned) /\ child_status[t].waited /\ child_status[t].wait_ok) =>
            /\ cmd_result[t].ok <=>
                  (child_status[t].code.some /\ child_status[t].code.v = 0)
            /\ (child_status[t].code.some /\ child_status[t].code.v # 0) =>
                  /\ cmd_result[t].kind = "ExitFailure"
                  /\ cmd_result[t].code = child_status[t].code.v
                  /\ run_result = cmd_result[t]
                  /\ ~run_result.ok
                  /\ pc = "exit1"

\* C8's case: a child that exited with the largest nonzero code, after one that
\* exited with code 0
C8_Witness ==
    \E t, u \in TaskNames :
        /\ child_status[t].wait_ok /\ child_status[t].code.some
        /\ child_status[t].code.v = MaxExitCode
        /\ cmd_result[t].kind = "ExitFailure"
        /\ Succeeded(u)

\* C9: no task's process is spawned unless load returned a validated configuration,
\* one that parsed and whose depends_on and parsers names all resolve; when load
\* returns an error main exits without a spawn.
C9_NoSpawnWithoutValidation ==
    /\ spawned # <<>> =>
          /\ load_result.ok
          /\ content.toml_ok
          /\ AllDepsResolve(content)
          /\ AllParsersResolve(content)
    /\ (load_result # Pending /\ ~load_result.ok) => (pc = "exit1" /\ spawned = <<>>)

\* C9's case: load returned a validation error and main exited
C9_Witness ==
    /\ load_result.kind \in {"InvalidDependency", "InvalidParser"}
    /\ pc = "exit1"
    /\ spawned = <<>>

\* C10: get_root_tasks returns exactly the tasks whose depends_on is absent or
\* empty, each once.
C10_RootTasksExact ==
    (pc = "done" /\ cli.command = "Summary") =>
        /\ Range(root_tasks) =
              {t \in DOMAIN content.tasks : \A d \in TaskNames : ~Edge(content, t, d)}
        /\ \A i, j \in 1..Len(root_tasks) : root_tasks[i] = root_tasks[j] => i = j

\* C10's case: a summary of a configuration with a task whose depends_on is absent,
\* one whose depends_on is empty and one with a dependency
C10_Witness ==
    /\ pc = "done" /\ cli.command = "Summary"
    /\ Len(root_tasks) = 2
    /\ \E a, b, c \in DOMAIN content.tasks :
          /\ ~content.tasks[a].depends_on.some
          /\ content.tasks[b].depends_on.some /\ content.tasks[b].depends_on.v = <<>>
          /\ content.tasks[c].depends_on.some /\ content.tasks[c].depends_on.v # <<>>

\* C11: validation checks every depends_on entry of the configuration before any
\* parsers entry: a configuration with an unresolved depends_on entry, on any task,
\* fails with InvalidDependency and never with InvalidParser, whatever the order in
\* which the tasks are iterated.
C11_DependenciesCheckedFirst ==
    (Validated /\ ~AllDepsResolve(content)) =>
        /\ load_result.kind # "InvalidParser"
        /\ load_result.kind = "InvalidDependency"

\* the lines of stream s in the sequence of lines q, in the order of q
OfStream(q, s) == SelectSeq(q, LAMBDA m : m.stream = s)

\* the lines the reader of stream s read successfully, in the order it read them
ReadOf(s) == [i \in 1..Len(lines_read[s]) |-> Line(s, lines_read[s][i])]

\* the child of the run_command last entered
LastSpawned == spawned[Len(spawned)]

\* C12: in every interleaving of the two readers, the lines of each stream reach
\* the sink in the order in which the stream's reader read them, each line read
\* successfully exactly once: what is printed and what is still in the channel is,
\* per stream, what was read, and once the loop has ended all of it is printed.
C12_PerStreamOrderKept ==
    \A s \in Streams :
        /\ OfStream(sink \o chan, s) = ReadOf(s)
        /\ rc \in {"join", "wait", "idle"} => OfStream(sink, s) = ReadOf(s)

\* C12's case: run_command returned having printed a stderr line between two
\* stdout lines
C12_Witness ==
    /\ rc = "idle"
    /\ spawned # <<>>
    /\ \E i \in 1..Len(sink) :
          /\ i + 2 <= Len(sink)
          /\ sink[i] = Line("stdout", 1)
          /\ sink[i + 1].stream = "stderr"
          /\ sink[i + 2] = Line("stdout", 2)

\* C13: when a task's exit status is evaluated, when the task is reported completed
\* or failed and when the loop is about to start the next task, both reader threads
\* of the task have reached end-of-stream and every line they sent has been printed.
C13_ReportedAfterDrained ==
    (/\ spawned # <<>>
     /\ \/ rc \in {"wait", "idle"}
        \/ pc # "wait"
        \/ status[LastSpawned] # "running"
        \/ cmd_result[LastSpawned] # Pending
        \/ child_status[LastSpawned].waited)
      => /\ \A s \in Streams : rd[s] = "done"
         /\ chan = <<>>
         /\ \A s \in Streams : OfStream(sink, s) = ReadOf(s)

\* C13's case: a task that printed lines of both streams was reported completed and
\* the loop is about to start the next task
C13_Witness ==
    /\ pc = "loop"
    /\ idx = 2
    /\ status[LastSpawned] = "succeeded"
    /\ \A s \in Streams : OfStream(sink, s) # <<>>

\* C14: with every thread scheduled fairly, once run_command is at its loop over
\* the channel the loop ends and run_command returns.
C14_RunCommandReturns == (rc = "recv") ~> (rc = "idle")

\* C14's case: run_command returned after both readers read every line the bound
\* allows
C14_Witness ==
    /\ rc = "idle"
    /\ spawned # <<>>
    /\ \A s \in Streams : Len(lines_read[s]) = MaxLines /\ rd[s] = "done"
    /\ tx_alive = {}

====
